---- MODULE Spec2Model ----
(***************************************************************************)
(* State-machine model of the AI Frontend Builder application (App.tsx):   *)
(* the generation request of handleSubmit with its line-buffered stream    *)
(* parser, React's queue of state updates and the render that applies it,  *)
(* the final formatting pass, and the preview composition (htmlContent).   *)
(*                                                                         *)
(* A JavaScript string is a sequence of one-character strings.  The value  *)
(* of the `files` state is tagged: [kind |-> "array", items |-> <<..>>] is *)
(* a FileData[] and [kind |-> "promise", items |-> <<..>>] is a Promise    *)
(* that resolves to that FileData[].                                       *)
(***************************************************************************)
EXTENDS Integers, Sequences, FiniteSets, TLC

VARIABLES
    files,            \* useState<FileData[]>: the last rendered value
    activeFileName,   \* useState: the active file's name
    isLoading,        \* useState<boolean>
    error,            \* useState<string | null>: "null" or the message
    htmlContent,      \* useMemo: the composed preview of the last render
    pending,          \* React's queue of state updates not yet rendered
    crashed,          \* a render threw and React unmounted the tree
    pc,               \* where handleSubmit is suspended
    currentFileName,  \* handleSubmit's local `let currentFileName`
    buffer,           \* handleSubmit's local `let buffer`
    text,             \* the text the generation service sends for this request
    pos,              \* how many characters of text have been delivered
    prevFiles,        \* the argument the last applied completion updater got (line 225)
    currentFiles,     \* the argument the formatting updater got (line 241)
    storage,          \* localStorage.getItem('code-project')
    requests,         \* the calls of handleSubmit that are inside the try block
    newFileError,     \* NewFileModal's useState: "null", "empty" or "duplicate"
    recognition,      \* the SpeechRecognition service: "inactive", "starting", "active"
    isListening,      \* useSpeechRecognition's useState: the last rendered value
    listeningUpdate,  \* the setIsListening value not yet rendered, or "none"
    userStoppedRef,   \* userStoppedRef.current
    restartTimers,    \* the 100 ms timers of onend that have not fired yet
    cleanedUp,        \* the cleanup of the hook's effect has run
    explicitStop      \* history: the user stopped, or a fatal error occurred,
                      \* since the last startListening

\* the state of App and of the components under it
appVars == <<files, activeFileName, isLoading, error, htmlContent, pending, crashed,
             pc, currentFileName, buffer, text, pos, prevFiles, currentFiles,
             storage, requests, newFileError>>

\* the state of the useSpeechRecognition hook and of the service it drives
speechVars == <<recognition, isListening, listeningUpdate, userStoppedRef,
                restartTimers, cleanedUp, explicitStop>>

vars == <<appVars, speechVars>>

(***************************************************************************)
(* Bounds of the model.                                                    *)
(***************************************************************************)
MaxLines == 3        \* complete lines of a generated stream
MaxFiles == 3        \* files of a project opened in the workspace

(***************************************************************************)
(* Strings.                                                                *)
(***************************************************************************)
LF == "\n"

\* String.prototype.trim's white space (the part that occurs in the model)
WhiteSpace == {" ", "\t", "\n", "\r"}

RECURSIVE TrimStart(_)
TrimStart(s) ==
    IF s # <<>> /\ Head(s) \in WhiteSpace THEN TrimStart(Tail(s)) ELSE s

RECURSIVE TrimEnd(_)
TrimEnd(s) ==
    IF s # <<>> /\ s[Len(s)] \in WhiteSpace
    THEN TrimEnd(SubSeq(s, 1, Len(s) - 1))
    ELSE s

\* String.prototype.trim
Trim(s) == TrimEnd(TrimStart(s))

\* String.prototype.startsWith
StartsWith(s, p) == Len(s) >= Len(p) /\ SubSeq(s, 1, Len(p)) = p

\* String.prototype.endsWith
EndsWith(s, p) ==
    Len(s) >= Len(p) /\ SubSeq(s, Len(s) - Len(p) + 1, Len(s)) = p

\* String.prototype.indexOf, 1-based; 0 when p does not occur (JavaScript's -1)
IndexOf(s, p) ==
    LET hits == {i \in 1..(Len(s) - Len(p) + 1) : SubSeq(s, i, i + Len(p) - 1) = p}
    IN  IF hits = {} THEN 0 ELSE CHOOSE i \in hits : \A j \in hits : i <= j

\* Array.prototype.join
RECURSIVE Join(_, _)
Join(parts, sep) ==
    IF parts = <<>> THEN <<>>
    ELSE IF Len(parts) = 1 THEN parts[1]
    ELSE parts[1] \o sep \o Join(Tail(parts), sep)

(***************************************************************************)
(* The FileData[] values and the updater functions handleSubmit passes to  *)
(* setFiles.                                                               *)
(***************************************************************************)
Array(items) == [kind |-> "array", items |-> items]

PromiseOf(items) == [kind |-> "promise", items |-> items]

IsArray(v) == v.kind = "array"

FileNames(items) == {items[i].fileName : i \in DOMAIN items}

\* files[0]?.fileName || '' (the empty string)
FirstFileName(items) == IF items = <<>> THEN <<>> ELSE items[1].fileName

\* `let currentFileName: string | null = null`: null and '' are both falsy and
\* no updater is queued while the variable is falsy
NoFile == <<>>

\* the marker prefix '>>>FILE:' of line 197
MARKER == <<">", ">", ">", "F", "I", "L", "E", ":">>

\* lines 201-207: the updater of a marker line
AddFileUpdater(prev, newFileName) ==
    IF \E i \in DOMAIN prev : prev[i].fileName = newFileName
    THEN prev
    ELSE Append(prev, [fileName |-> newFileName, content |-> <<>>])

\* lines 212-218: the updater of a content line; `target` is the value the
\* closure variable currentFileName has when the updater runs
AppendLineUpdater(prev, target, line) ==
    [i \in DOMAIN prev |->
        IF prev[i].fileName = target
        THEN [prev[i] EXCEPT !.content = @ \o line \o <<LF>>]
        ELSE prev[i]]

AppendRestUpdater_WithNewline(prev, target, rest) ==
    [i \in DOMAIN prev |->
        IF prev[i].fileName = target
        THEN [prev[i] EXCEPT !.content = @ \o rest \o <<LF>>]
        ELSE prev[i]]

\* lines 225-231: the updater of the remainder; `target` and `rest` are the
\* values of currentFileName and buffer when the updater runs
AppendRestUpdater(prev, target, rest) ==
    [i \in DOMAIN prev |->
        IF prev[i].fileName = target
        THEN [prev[i] EXCEPT !.content = @ \o rest]
        ELSE prev[i]]

\* CodeWorkspace.tsx lines 64-68: the updater of an edit in the editor;
\* `active` is the activeFileName of the render the editor belongs to
ContentChangeUpdater(prev, active, newContent) ==
    [i \in DOMAIN prev |->
        IF prev[i].fileName = active
        THEN [prev[i] EXCEPT !.content = newContent]
        ELSE prev[i]]

\* CodeWorkspace.tsx line 73: the updater of handleCreateFile
CreateFileUpdater(prev, fileName) ==
    Append(prev, [fileName |-> fileName, content |-> <<>>])

\* CodeWorkspace.tsx line 82: the new FileSet of handleDeleteFile's updater
DeleteFileUpdater(prev, fileNameToDelete) ==
    SelectSeq(prev, LAMBDA f : f.fileName # fileNameToDelete)

\* String.prototype.toLowerCase on the letters of the model's names
UPPER == <<"A", "B", "C", "D", "E", "F", "G", "H", "I", "J", "K", "L", "M",
           "N", "O", "P", "Q", "R", "S", "T", "U", "V", "W", "X", "Y", "Z">>
LOWER == <<"a", "b", "c", "d", "e", "f", "g", "h", "i", "j", "k", "l", "m",
           "n", "o", "p", "q", "r", "s", "t", "u", "v", "w", "x", "y", "z">>

ToLowerCase(s) ==
    [i \in DOMAIN s |->
        IF \E k \in DOMAIN UPPER : UPPER[k] = s[i]
        THEN LOWER[CHOOSE k \in DOMAIN UPPER : UPPER[k] = s[i]]
        ELSE s[i]]

(***************************************************************************)
(* formatCode (utils/formatter.ts).  prettier is an external library: its  *)
(* pretty-printing is represented by a normalisation of the trailing white *)
(* space, and its syntax errors by unbalanced braces.                      *)
(***************************************************************************)
HTML_EXT == <<".", "h", "t", "m", "l">>
CSS_EXT == <<".", "c", "s", "s">>
JS_EXT == <<".", "j", "s">>
JSX_EXT == <<".", "j", "s", "x">>
TS_EXT == <<".", "t", "s">>
TSX_EXT == <<".", "t", "s", "x">>

getParser(fileName) ==
    IF EndsWith(fileName, HTML_EXT) THEN "html"
    ELSE IF EndsWith(fileName, CSS_EXT) THEN "css"
    ELSE IF \/ EndsWith(fileName, JS_EXT) \/ EndsWith(fileName, JSX_EXT)
            \/ EndsWith(fileName, TS_EXT) \/ EndsWith(fileName, TSX_EXT) THEN "babel"
    ELSE "null"

Count(s, c) == Cardinality({i \in DOMAIN s : s[i] = c})

\* prettier.format: [threw, text]
PrettierFormat(content, parser) ==
    IF parser \in {"css", "babel"} /\ Count(content, "{") # Count(content, "}")
    THEN [threw |-> TRUE, text |-> <<>>]
    ELSE [threw |-> FALSE,
          text |-> IF TrimEnd(content) = <<>> THEN <<>> ELSE TrimEnd(content) \o <<LF>>]

formatCode(fileName, content) ==
    LET parser == getParser(fileName)
    IN  IF parser = "null" THEN content
        ELSE LET r == PrettierFormat(content, parser)
             IN  IF r.threw THEN content ELSE r.text

\* lines 242-248: what the promise of the formatting updater resolves to
FormattedFiles(cur) ==
    [i \in DOMAIN cur |->
        [fileName |-> cur[i].fileName,
         content |-> formatCode(cur[i].fileName, cur[i].content)]]

(***************************************************************************)
(* Preview composition: the htmlContent memo (lines 253-278).              *)
(***************************************************************************)
HEAD_CLOSE == <<"<", "/", "h", "e", "a", "d", ">">>
BODY_CLOSE == <<"<", "/", "b", "o", "d", "y", ">">>
STYLE_OPEN == <<"<", "s", "t", "y", "l", "e", ">">>
STYLE_CLOSE == <<"<", "/", "s", "t", "y", "l", "e", ">">>
SCRIPT_OPEN == <<"<", "s", "c", "r", "i", "p", "t", ">">>
SCRIPT_CLOSE == <<"<", "/", "s", "c", "r", "i", "p", "t", ">">>

\* line 255
FALLBACK_HTML ==
    <<"<", "h", "t", "m", "l", ">", "<", "b", "o", "d", "y", ">", "<", "p", ">",
        "N", "o", " ", "i", "n", "d", "e", "x", ".", "h", "t", "m", "l", " ",
        "f", "i", "l", "e", " ", "f", "o", "u", "n", "d", ".", "<", "/", "p",
        ">", "<", "/", "b", "o", "d", "y", ">", "<", "/", "h", "t", "m", "l",
        ">">>

\* the characters U+0060 (written by name: a TLA+ string cannot hold it
\* alone) and U+0027
BACKTICK == "backtick"
APOSTROPHE == "'"

\* ECMAScript GetSubstitution for a pattern without capture groups: in the
\* replacement string $$ is $, $& the matched text, $ and a backtick the
\* text before the match, $ and an apostrophe the text after it; any other
\* character stands for itself
RECURSIVE GetSubstitution(_, _, _, _)
GetSubstitution(replacement, matched, before, after) ==
    IF replacement = <<>> THEN <<>>
    ELSE IF Head(replacement) = "$" /\ Len(replacement) >= 2
            /\ replacement[2] \in {"$", "&", BACKTICK, APOSTROPHE}
    THEN (CASE replacement[2] = "$" -> <<"$">>
            [] replacement[2] = "&" -> matched
            [] replacement[2] = BACKTICK -> before
            [] replacement[2] = APOSTROPHE -> after)
         \o GetSubstitution(SubSeq(replacement, 3, Len(replacement)),
                            matched, before, after)
    ELSE <<Head(replacement)>>
         \o GetSubstitution(Tail(replacement), matched, before, after)

\* String.prototype.replace(/literal/, replacement): the first match only
Replace(s, literal, replacement) ==
    LET at == IndexOf(s, literal)
    IN  IF at = 0 THEN s
        ELSE LET before == SubSeq(s, 1, at - 1)
                 after == SubSeq(s, at + Len(literal), Len(s))
             IN  before \o GetSubstitution(replacement, literal, before, after) \o after

IsHtml(f) == EndsWith(f.fileName, HTML_EXT)
IsCss(f) == EndsWith(f.fileName, CSS_EXT)
IsJs(f) == EndsWith(f.fileName, JS_EXT)

Contents(fs) == [i \in DOMAIN fs |-> fs[i].content]

InlineCss_OnlyNonEmptyText(processedHtml, items) ==
    LET cssContent == Join(Contents(SelectSeq(items, IsCss)), <<LF>>)
    IN  IF cssContent # <<>>
        THEN Replace(processedHtml, HEAD_CLOSE,
                     STYLE_OPEN \o cssContent \o STYLE_CLOSE \o HEAD_CLOSE)
        ELSE processedHtml

\* lines 259-266
InlineCss(processedHtml, items) ==
    LET cssFiles == SelectSeq(items, IsCss)
    IN  IF Len(cssFiles) > 0
        THEN Replace(processedHtml, HEAD_CLOSE,
                     STYLE_OPEN \o Join(Contents(cssFiles), <<LF>>)
                         \o STYLE_CLOSE \o HEAD_CLOSE)
        ELSE processedHtml

\* lines 268-275
InlineJs(processedHtml, items) ==
    LET jsFiles == SelectSeq(items, IsJs)
    IN  IF Len(jsFiles) > 0
        THEN Replace(processedHtml, BODY_CLOSE,
                     SCRIPT_OPEN \o Join(Contents(jsFiles), <<";", LF>>)
                         \o SCRIPT_CLOSE \o BODY_CLOSE)
        ELSE processedHtml

Compose_LastHtmlFile(items) ==
    LET htmlFiles == SelectSeq(items, IsHtml)
    IN  IF htmlFiles = <<>> THEN FALLBACK_HTML
        ELSE InlineJs(InlineCss(htmlFiles[Len(htmlFiles)].content, items), items)

\* lines 253-278
Compose(items) ==
    LET htmlFiles == SelectSeq(items, IsHtml)
    IN  IF htmlFiles = <<>> THEN FALLBACK_HTML
        ELSE InlineJs(InlineCss(htmlFiles[1].content, items), items)

(***************************************************************************)
(* React: state updates are queued and applied, in order, by the next      *)
(* render.  An updater function runs when the render applies it, so it     *)
(* reads the closure variables currentFileName and buffer as they are      *)
(* then.  When no update of the component is pending, React may instead    *)
(* run the updater at once (the eager state of dispatchSetState) and drop  *)
(* the update when the result is the state itself.                         *)
(***************************************************************************)
NoValue == [kind |-> "none", items |-> <<>>]

(***************************************************************************)
(* Local storage: the item 'code-project'.  A stored text is represented   *)
(* by what JSON.parse makes of it.                                         *)
(***************************************************************************)
\* getItem returns null: there is no item
NoItem == [kind |-> "null", items |-> <<>>]

\* a text that JSON.parse rejects
UNPARSABLE == [kind |-> "text", items |-> <<>>]

\* the text '{}'
JSON_OBJECT == [kind |-> "json-object", items |-> <<>>]

\* the text of an array of {"fileName": ..., "content": ...} objects
JsonArray(items) == [kind |-> "json-array", items |-> items]

\* a JavaScript object that is not an array
PlainObject == [kind |-> "object", items |-> <<>>]

\* JSON.stringify(files) of line 106: a Promise has no enumerable property of
\* its own and serialises as '{}'
Stringify(v) == IF IsArray(v) THEN JsonArray(v.items) ELSE JSON_OBJECT

\* JSON.parse(saved) of line 86: [threw, value]
Parse(saved) ==
    CASE saved.kind = "json-array" -> [threw |-> FALSE, value |-> Array(saved.items)]
      [] saved.kind = "json-object" -> [threw |-> FALSE, value |-> PlainObject]
      [] OTHER -> [threw |-> TRUE, value |-> NoValue]

\* one update `u` of the queue applied to the state `s` being rendered, when
\* handleSubmit's variables currentFileName and buffer hold `target` and `rest`
ApplyUpdate(s, u, target, rest) ==
    CASE u.kind = "setFiles" -> [s EXCEPT !.files = Array(u.value)]
      [] u.kind = "addFile" ->
            IF IsArray(s.files)
            THEN [s EXCEPT !.files = Array(AddFileUpdater(s.files.items, u.name))]
            ELSE [s EXCEPT !.threw = TRUE]
      [] u.kind = "appendLine" ->
            IF IsArray(s.files)
            THEN [s EXCEPT !.files =
                     Array(AppendLineUpdater(s.files.items, target, u.line))]
            ELSE [s EXCEPT !.threw = TRUE]
      [] u.kind = "appendRest" ->
            IF IsArray(s.files)
            THEN [s EXCEPT !.prevFiles = s.files,
                           !.files =
                     Array(AppendRestUpdater(s.files.items, target, rest))]
            ELSE [s EXCEPT !.threw = TRUE]
      [] u.kind = "format" ->
            \* lines 241-249: the updater is an async function, so the new
            \* state is the promise it returns
            [s EXCEPT !.currentFiles = s.files,
                      !.files = PromiseOf(IF IsArray(s.files)
                                          THEN FormattedFiles(s.files.items)
                                          ELSE <<>>)]
      [] u.kind = "setContent" ->
            IF IsArray(s.files)
            THEN [s EXCEPT !.files =
                     Array(ContentChangeUpdater(s.files.items, u.name, u.content))]
            ELSE [s EXCEPT !.threw = TRUE]
      [] u.kind = "createFile" ->
            IF IsArray(s.files)
            THEN [s EXCEPT !.files = Array(CreateFileUpdater(s.files.items, u.name))]
            ELSE [s EXCEPT !.threw = TRUE]
      [] u.kind = "deleteFile" ->
            \* CodeWorkspace.tsx lines 81-87: the updater calls
            \* setActiveFileName when the handler's activeFileName (u.active)
            \* is the deleted file
            IF IsArray(s.files)
            THEN LET newFiles == DeleteFileUpdater(s.files.items, u.name)
                 IN  [s EXCEPT !.files = Array(newFiles),
                               !.activeFileName =
                                   IF u.active = u.name THEN FirstFileName(newFiles)
                                   ELSE @]
            ELSE [s EXCEPT !.threw = TRUE]
      [] u.kind = "setActiveFileName" -> [s EXCEPT !.activeFileName = u.value]
      [] u.kind = "setIsLoading" -> [s EXCEPT !.isLoading = u.value]
      [] u.kind = "setError" -> [s EXCEPT !.error = u.value]

RECURSIVE ApplyAll(_, _, _, _)
ApplyAll(s, q, target, rest) ==
    IF q = <<>> \/ s.threw THEN s
    ELSE ApplyAll(ApplyUpdate(s, Head(q), target, rest), Tail(q), target, rest)

\* the state a render computes from the queue `q`
Rendered(q) ==
    ApplyAll([files |-> files, activeFileName |-> activeFileName,
              isLoading |-> isLoading, error |-> error,
              prevFiles |-> prevFiles, currentFiles |-> currentFiles,
              threw |-> FALSE], q, currentFileName, buffer)

\* the effect of lines 105-110, run after the commit: the update it queues
\* (setting the state to the value it has queues nothing)
ActiveFileEffect(items, active) ==
    IF \/ \E i \in DOMAIN items : items[i].fileName = active
       \/ FirstFileName(items) = active
    THEN <<>>
    ELSE <<[kind |-> "setActiveFileName", value |-> FirstFileName(items)]>>

\* line 106, run after the commit when `files` or `activeFileName` changed:
\* the item the storage holds afterwards
PersistEffect(newFiles, newActive) ==
    IF newFiles # files \/ newActive # activeFileName
    THEN Stringify(newFiles)
    ELSE storage

\* A render of App with the queue `q`.  The htmlContent memo calls files.find
\* and an updater calls prevFiles.map: with `files` a promise they throw, no
\* error boundary catches it, and React unmounts the application.
Commit(q) ==
    LET r == Rendered(q)
    IN  /\ files' = r.files
        /\ prevFiles' = r.prevFiles
        /\ currentFiles' = r.currentFiles
        /\ IF r.threw \/ ~IsArray(r.files)
           THEN /\ crashed' = TRUE
                /\ pending' = <<>>
                /\ UNCHANGED <<activeFileName, isLoading, error, htmlContent,
                               storage>>
           ELSE /\ crashed' = FALSE
                /\ activeFileName' = r.activeFileName
                /\ isLoading' = r.isLoading
                /\ error' = r.error
                /\ htmlContent' = Compose(r.files.items)
                /\ storage' = PersistEffect(r.files, r.activeFileName)
                /\ pending' = ActiveFileEffect(r.files.items, r.activeFileName)

\* setFiles(updater) called with the queue `q`; `eager` says whether React
\* takes the eager path when it can
DispatchAddFile(q, newFileName, eager) ==
    IF eager /\ q = <<>> /\ IsArray(files)
    THEN IF AddFileUpdater(files.items, newFileName) = files.items
         THEN q
         ELSE <<[kind |-> "setFiles",
                 value |-> AddFileUpdater(files.items, newFileName)]>>
    ELSE Append(q, [kind |-> "addFile", name |-> newFileName])

DispatchAppendLine(q, target, line, eager) ==
    IF eager /\ q = <<>> /\ IsArray(files)
    THEN <<[kind |-> "setFiles",
            value |-> AppendLineUpdater(files.items, target, line)]>>
    ELSE Append(q, [kind |-> "appendLine", line |-> line])

\* setActiveFileName(value)
DispatchActive(q, value, eager) ==
    IF eager /\ q = <<>> /\ value = activeFileName
    THEN q
    ELSE Append(q, [kind |-> "setActiveFileName", value |-> value])

(***************************************************************************)
(* handleSubmit (lines 170-251).                                           *)
(***************************************************************************)
\* lines 197-219: one complete line; st = [buffer, currentFileName, pending]
ProcessLine(st, line, eager) ==
    IF StartsWith(line, MARKER)
    THEN LET newFileName == Trim(SubSeq(line, Len(MARKER) + 1, Len(line)))
         IN  IF newFileName # <<>>
             THEN [st EXCEPT
                     !.currentFileName = newFileName,
                     !.pending = DispatchActive(
                                    DispatchAddFile(@, newFileName, eager),
                                    newFileName, eager)]
             ELSE st
    ELSE IF st.currentFileName # NoFile
    THEN [st EXCEPT !.pending =
             DispatchAppendLine(@, st.currentFileName, line, eager)]
    ELSE st

\* lines 193-220: the while loop over the complete lines of the buffer
RECURSIVE ProcessLines(_, _)
ProcessLines(st, eager) ==
    LET lineEndIndex == IndexOf(st.buffer, <<LF>>)
    IN  IF lineEndIndex = 0 THEN st
        ELSE ProcessLines(
                 ProcessLine([st EXCEPT !.buffer =
                                 SubSeq(@, lineEndIndex + 1, Len(@))],
                             SubSeq(st.buffer, 1, lineEndIndex - 1), eager),
                 eager)

(***************************************************************************)
(* The inputs: the prompts the user submits and the texts the generation   *)
(* service streams back.                                                   *)
(***************************************************************************)
Prompts == {<<>>, <<" ">>, <<"g", "o">>}

\* the lines of a generated stream: two markers (with white space around the
\* name), a marker with an empty name, and a content line
LineSet ==
    {MARKER \o <<" ", "a">>, MARKER \o <<"b", " ">>, MARKER \o <<" ">>, <<"x">>}

\* what may follow the last newline of the stream
RemainderSet == {<<>>, <<"z">>}

RECURSIVE TextsOfLines(_)
TextsOfLines(n) ==
    IF n = 0 THEN {<<>>}
    ELSE LET shorter == TextsOfLines(n - 1)
         IN  shorter \cup {t \o l \o <<LF>> : t \in shorter, l \in LineSet}

\* the stream of section 8 of the specification
EXAMPLE_STREAM ==
    <<">", ">", ">", "F", "I", "L", "E", ":", " ", "a", ".", "j", "s", LF,
      "c", "o", "n", "s", "o", "l", "e", ".", "l", "o", "g", "(", "1", ")",
      ";", LF, ">", ">", ">", "F", "I", "L", "E", ":", " ", "b", ".", "c",
      "s", "s", LF, "b", "o", "d", "y", "{", "}", LF>>

\* a stream that comes back to a file it already announced
REPEATED_MARKER_STREAM ==
    <<">", ">", ">", "F", "I", "L", "E", ":", " ", "a", LF, "x", LF, ">",
      ">", ">", "F", "I", "L", "E", ":", " ", "b", LF, "y", LF, ">", ">",
      ">", "F", "I", "L", "E", ":", " ", "a", LF, "z", LF>>

\* a stream with the malformed marker line of section 8 of the specification
EMPTY_MARKER_STREAM ==
    <<">", ">", ">", "F", "I", "L", "E", ":", " ", "a", LF, "x", LF, ">",
      ">", ">", "F", "I", "L", "E", ":", " ", " ", " ", LF, "y", LF, ">",
      ">", ">", "F", "I", "L", "E", ":", " ", "b", LF, "z", LF>>

Texts ==
    {t \o r : t \in TextsOfLines(MaxLines), r \in RemainderSet}
        \cup {EXAMPLE_STREAM, REPEATED_MARKER_STREAM, EMPTY_MARKER_STREAM}

\* DEFAULT_FILES (lines 43-79), the markup and the rules inside the elements
\* left out
DEFAULT_FILES ==
    << [fileName |-> <<"i", "n", "d", "e", "x">> \o HTML_EXT,
        content |-> <<"<", "h", "e", "a", "d", ">">> \o HEAD_CLOSE
                        \o <<"<", "b", "o", "d", "y", ">">> \o BODY_CLOSE],
       [fileName |-> <<"s", "t", "y", "l", "e">> \o CSS_EXT,
        content |-> <<"b", "o", "d", "y", "{", "}">>],
       [fileName |-> <<"s", "c", "r", "i", "p", "t">> \o JS_EXT,
        content |-> <<"l", "o", "g", "(", ")", ";">>] >>

\* 'Failed to generate code: ...' (line 237)
ERROR_MESSAGE == "Failed to generate code"

(***************************************************************************)
(* The state after useSpeechRecognition is constructed (lines 33-38 of     *)
(* hooks/useSpeechRecognition.ts) and its effect has created the service.  *)
(***************************************************************************)
SpeechInit ==
    /\ recognition = "inactive"
    /\ isListening = FALSE
    /\ listeningUpdate = "none"
    /\ userStoppedRef = FALSE
    /\ restartTimers = 0
    /\ cleanedUp = FALSE
    /\ explicitStop = FALSE

(***************************************************************************)
(* The state after App is constructed (lines 82-99), with no saved project *)
(***************************************************************************)
Init ==
    /\ files = Array(DEFAULT_FILES)
    /\ activeFileName = DEFAULT_FILES[1].fileName
    /\ isLoading = FALSE
    /\ error = "null"
    /\ htmlContent = Compose(DEFAULT_FILES)
    /\ pending = <<>>
    /\ crashed = FALSE
    /\ pc = "idle"
    /\ currentFileName = NoFile
    /\ buffer = <<>>
    /\ text = <<>>
    /\ pos = 0
    /\ prevFiles = NoValue
    /\ currentFiles = NoValue
    /\ storage = Stringify(Array(DEFAULT_FILES))
    /\ requests = 0
    /\ newFileError = "null"
    /\ SpeechInit

Accepted_IgnoresLoading(prompt) == ~(Trim(prompt) = <<>>)

\* line 171: the request is accepted
Accepted(prompt) == ~(Trim(prompt) = <<>> \/ isLoading)

SubmitUpdates_KeepFiles ==
    <<[kind |-> "setIsLoading", value |-> TRUE],
      [kind |-> "setError", value |-> "null"]>>

\* lines 173-175
SubmitUpdates ==
    <<[kind |-> "setIsLoading", value |-> TRUE],
      [kind |-> "setError", value |-> "null"],
      [kind |-> "setFiles", value |-> <<>>]>>

\* lines 170-186: the click or key press that calls handleSubmit.  The three
\* updates are made inside a discrete event, which React renders before the
\* event ends; the handler then waits for generateContentStream, whose
\* stream will deliver one of `texts`.
Submit(prompt, texts) ==
    /\ ~crashed
    /\ files # NoValue
    /\ IF ~Accepted(prompt)
       THEN UNCHANGED vars
       ELSE /\ Commit(pending \o SubmitUpdates)
            /\ pc' = "opening"
            /\ currentFileName' = NoFile
            /\ buffer' = <<>>
            /\ text' \in texts
            /\ pos' = 0
            /\ requests' = requests + 1
            /\ UNCHANGED <<newFileError, speechVars>>

\* line 180: generateContentStream resolves and the loop waits for a chunk
StreamOpen ==
    /\ pc = "opening"
    /\ pc' = "streaming"
    /\ UNCHANGED <<files, activeFileName, isLoading, error, htmlContent, pending,
                   crashed, currentFileName, buffer, text, pos, prevFiles,
                   currentFiles, storage, requests, newFileError, speechVars>>

\* lines 188-221: one chunk of `len` characters arrives and is processed
Chunk(len, eager) ==
    /\ pc = "streaming"
    /\ pos + len <= Len(text)
    /\ LET st == ProcessLines(
                    [buffer |-> buffer \o SubSeq(text, pos + 1, pos + len),
                     currentFileName |-> currentFileName,
                     pending |-> pending], eager)
       IN  /\ buffer' = st.buffer
           /\ currentFileName' = st.currentFileName
           /\ pending' = st.pending
    /\ pos' = pos + len
    /\ UNCHANGED <<files, activeFileName, isLoading, error, htmlContent, crashed,
                   pc, text, prevFiles, currentFiles, storage, requests,
                   newFileError, speechVars>>

\* lines 238-249: the finally block
Finally(q) ==
    q \o <<[kind |-> "setIsLoading", value |-> FALSE], [kind |-> "format"]>>

\* lines 223-232 and 238-249: the stream is exhausted.  (The remainder's
\* updater reads currentFileName and buffer, which no longer change, so its
\* eager and its queued evaluation agree.)
StreamEnd ==
    /\ pc = "streaming"
    /\ pos = Len(text)
    /\ pending' = Finally(IF currentFileName # NoFile /\ Len(buffer) > 0
                          THEN Append(pending, [kind |-> "appendRest"])
                          ELSE pending)
    /\ pc' = "completed"
    /\ requests' = requests - 1
    /\ UNCHANGED <<files, activeFileName, isLoading, error, htmlContent, crashed,
                   currentFileName, buffer, text, pos, prevFiles, currentFiles,
                   storage, newFileError, speechVars>>

\* lines 234-249: generateContentStream or the stream throws
StreamThrow ==
    /\ pc \in {"opening", "streaming"}
    /\ pending' = Finally(Append(pending,
                                 [kind |-> "setError", value |-> ERROR_MESSAGE]))
    /\ pc' = "failed"
    /\ requests' = requests - 1
    /\ UNCHANGED <<files, activeFileName, isLoading, error, htmlContent, crashed,
                   currentFileName, buffer, text, pos, prevFiles, currentFiles,
                   storage, newFileError, speechVars>>

\* React renders App with the queued updates (between two chunks, or after
\* the handler returned)
Render ==
    /\ ~crashed
    /\ pending # <<>>
    /\ Commit(pending)
    /\ UNCHANGED <<pc, currentFileName, buffer, text, pos, requests, newFileError,
                   speechVars>>

Next ==
    \/ \E prompt \in Prompts : Submit(prompt, Texts)
    \/ StreamOpen
    \/ \E len \in 1..(Len(text) - pos), eager \in BOOLEAN : Chunk(len, eager)
    \/ StreamEnd
    \/ StreamThrow
    \/ Render

Spec == Init /\ [][Next]_vars

(***************************************************************************)
(* The workspace with a saved project: the projects App can load from      *)
(* local storage (lines 83-93), and the user's edits and tab selections.   *)
(***************************************************************************)
INDEX_HTML == <<"i">> \o HTML_EXT

ProjectNames ==
    {INDEX_HTML, <<"s">> \o CSS_EXT, <<"t">> \o CSS_EXT,
     <<"m">> \o JS_EXT, <<"n">> \o JS_EXT}

\* documents with one, no and two closing tags of each kind
HtmlDocs ==
    {<<"h">> \o HEAD_CLOSE \o <<"b">> \o BODY_CLOSE,
     <<"b">> \o BODY_CLOSE,
     <<"h">> \o HEAD_CLOSE,
     HEAD_CLOSE \o HEAD_CLOSE \o BODY_CLOSE \o BODY_CLOSE}

CssTexts == {<<>>, <<"a", "{", "}">>, <<"$", "&">>, <<"$", APOSTROPHE>>}

JsTexts == {<<>>, <<"x", "(", ")">>, <<"$", "$">>, <<"$", BACKTICK>>}

ContentsFor(fileName) ==
    IF EndsWith(fileName, HTML_EXT) THEN HtmlDocs
    ELSE IF EndsWith(fileName, CSS_EXT) THEN CssTexts
    ELSE JsTexts

\* the projects of at most n files with distinct names
RECURSIVE ProjectsOf(_)
ProjectsOf(n) ==
    IF n = 0 THEN {<<>>}
    ELSE LET smaller == ProjectsOf(n - 1)
         IN  smaller \cup
             {Append(p, [fileName |-> f, content |-> c]) :
                 <<p, f, c>> \in
                     {<<p, f, c>> \in smaller \X ProjectNames \X
                                          (HtmlDocs \cup CssTexts \cup JsTexts) :
                         f \notin FileNames(p) /\ c \in ContentsFor(f)}}

\* lines 82-99 with a project saved in local storage, and the first run of
\* the effect of lines 105-110
InitSaved ==
    /\ \E p \in ProjectsOf(MaxFiles) :
          /\ files = Array(p)
          /\ activeFileName = (IF FirstFileName(p) # <<>> THEN FirstFileName(p)
                               ELSE <<"i", "n", "d", "e", "x">> \o HTML_EXT)
          /\ htmlContent = Compose(p)
          /\ pending = ActiveFileEffect(p,
                           IF FirstFileName(p) # <<>> THEN FirstFileName(p)
                           ELSE <<"i", "n", "d", "e", "x">> \o HTML_EXT)
          /\ storage = Stringify(Array(p))
    /\ requests = 0
    /\ newFileError = "null"
    /\ SpeechInit
    /\ isLoading = FALSE
    /\ error = "null"
    /\ crashed = FALSE
    /\ pc = "idle"
    /\ currentFileName = NoFile
    /\ buffer = <<>>
    /\ text = <<>>
    /\ pos = 0
    /\ prevFiles = NoValue
    /\ currentFiles = NoValue

\* CodeWorkspace.tsx lines 62-69: the user edits the active file in the
\* editor (an input event, which React renders before the event ends)
ContentChange(newContent) ==
    /\ ~crashed
    /\ \E i \in DOMAIN files.items : files.items[i].fileName = activeFileName
    /\ Commit(Append(pending, [kind |-> "setContent", name |-> activeFileName,
                               content |-> newContent]))
    /\ UNCHANGED <<pc, currentFileName, buffer, text, pos, requests, newFileError,
                   speechVars>>

\* CodeWorkspace.tsx lines 157 and 209: the user clicks the tab of a file
SelectFile(fileName) ==
    /\ ~crashed
    /\ \E i \in DOMAIN files.items : files.items[i].fileName = fileName
    /\ Commit(Append(pending, [kind |-> "setActiveFileName", value |-> fileName]))
    /\ UNCHANGED <<pc, currentFileName, buffer, text, pos, requests, newFileError,
                   speechVars>>

NextWorkspace ==
    \/ \E c \in ContentsFor(activeFileName) : ContentChange(c)
    \/ \E f \in ProjectNames : SelectFile(f)
    \/ Render

SpecWorkspace == InitSaved /\ [][NextWorkspace]_vars

(***************************************************************************)
(* A session: the page is loaded with some item in local storage, App is   *)
(* mounted, and the user manages the files of the project (new-file        *)
(* dialog, delete buttons, new-project dialog, tabs, editor).               *)
(***************************************************************************)
INDEX_HTML_NAME == <<"i", "n", "d", "e", "x">> \o HTML_EXT

\* a project saved by an earlier session: two .html files
SAVED_PROJECT ==
    << [fileName |-> <<"p">> \o HTML_EXT, content |-> <<"h">> \o HEAD_CLOSE],
       [fileName |-> <<"q">> \o HTML_EXT, content |-> <<"k">> \o HEAD_CLOSE] >>

\* what the storage may hold when the page is loaded
StoredItems ==
    {NoItem, UNPARSABLE, JSON_OBJECT, JsonArray(<<>>), JsonArray(SAVED_PROJECT)}

\* what the user types in the new-file dialog
TypedNames == {<<>>, <<" ">>, <<" ", "a", " ">>, <<"A">>}

\* what the user types in the editor
TypedContents == {<<"e">>}

\* what the generation service streams back in a session
SessionTexts == {MARKER \o <<" ", "a", LF, "x">>}

\* the chunks of a session end with a line, or with the stream
SessionChunks ==
    LET rest == SubSeq(text, pos + 1, Len(text))
    IN  IF rest = <<>> THEN {}
        ELSE IF IndexOf(rest, <<LF>>) = 0 THEN {Len(rest)}
        ELSE {IndexOf(rest, <<LF>>), Len(rest)}

InitStored ==
    /\ storage \in StoredItems
    /\ files = NoValue
    /\ activeFileName = <<>>
    /\ isLoading = FALSE
    /\ error = "null"
    /\ htmlContent = <<>>
    /\ pending = <<>>
    /\ crashed = FALSE
    /\ pc = "idle"
    /\ currentFileName = NoFile
    /\ buffer = <<>>
    /\ text = <<>>
    /\ pos = 0
    /\ prevFiles = NoValue
    /\ currentFiles = NoValue
    /\ requests = 0
    /\ newFileError = "null"
    /\ SpeechInit

\* lines 83-92: the initial value of the `files` state, [files, storage]
InitialFiles(saved) ==
    IF saved = NoItem
    THEN [files |-> Array(DEFAULT_FILES), storage |-> saved]
    ELSE IF Parse(saved).threw
    THEN [files |-> Array(DEFAULT_FILES), storage |-> NoItem]
    ELSE [files |-> Parse(saved).value, storage |-> saved]

\* line 93: files[0]?.fileName || 'index.html'
InitialActiveFileName(v) ==
    IF IsArray(v) /\ FirstFileName(v.items) # <<>>
    THEN FirstFileName(v.items)
    ELSE INDEX_HTML_NAME

\* lines 82-110: App is constructed and rendered for the first time, and
\* the effect of lines 105-110 runs.  With `files` not an array the
\* htmlContent memo throws in files.find and nothing is mounted.
Mount ==
    /\ files = NoValue
    /\ ~crashed
    /\ LET init == InitialFiles(storage)
       IN  /\ files' = init.files
           /\ activeFileName' = InitialActiveFileName(init.files)
           /\ IF IsArray(init.files)
              THEN /\ htmlContent' = Compose(init.files.items)
                   /\ storage' = Stringify(init.files)
                   /\ pending' = ActiveFileEffect(init.files.items,
                                      InitialActiveFileName(init.files))
                   /\ crashed' = FALSE
              ELSE /\ crashed' = TRUE
                   /\ storage' = init.storage
                   /\ UNCHANGED <<htmlContent, pending>>
    /\ UNCHANGED <<isLoading, error, pc, currentFileName, buffer, text, pos,
                   prevFiles, currentFiles, requests, newFileError, speechVars>>

IsDuplicate_CaseSensitive(existingFiles, trimmedName) ==
    \E i \in DOMAIN existingFiles : existingFiles[i] = trimmedName

\* Modals.tsx line 125: existingFiles.some(...)
IsDuplicate(existingFiles, trimmedName) ==
    \E i \in DOMAIN existingFiles :
        ToLowerCase(existingFiles[i]) = ToLowerCase(trimmedName)

\* Modals.tsx lines 116-131 and CodeWorkspace.tsx lines 71-76: the user
\* types `fileName` in the new-file dialog and submits the form
CreateFile(fileName) ==
    /\ ~crashed
    /\ IsArray(files)
    /\ Len(files.items) < MaxFiles
    /\ LET trimmedName == Trim(fileName)
           existingFiles == [i \in DOMAIN files.items |-> files.items[i].fileName]
       IN  IF trimmedName = <<>>
           THEN /\ newFileError' = "empty"
                /\ UNCHANGED <<files, activeFileName, isLoading, error,
                               htmlContent, pending, crashed, prevFiles,
                               currentFiles, storage>>
           ELSE IF IsDuplicate(existingFiles, trimmedName)
           THEN /\ newFileError' = "duplicate"
                /\ UNCHANGED <<files, activeFileName, isLoading, error,
                               htmlContent, pending, crashed, prevFiles,
                               currentFiles, storage>>
           ELSE /\ newFileError' = "null"
                /\ Commit(pending \o
                          <<[kind |-> "createFile", name |-> trimmedName],
                            [kind |-> "setActiveFileName", value |-> trimmedName]>>)
    /\ UNCHANGED <<pc, currentFileName, buffer, text, pos, requests, speechVars>>

\* CodeWorkspace.tsx lines 78-88 and 166-173: the user clicks the delete
\* button of a file, which is shown when there are two files or more
DeleteFile(fileNameToDelete) ==
    /\ ~crashed
    /\ IsArray(files)
    /\ Len(files.items) > 1
    /\ fileNameToDelete \in FileNames(files.items)
    /\ Commit(Append(pending, [kind |-> "deleteFile", name |-> fileNameToDelete,
                               active |-> activeFileName]))
    /\ UNCHANGED <<pc, currentFileName, buffer, text, pos, requests, newFileError,
                   speechVars>>

\* lines 118-121 and CodeWorkspace.tsx lines 90-93: the user confirms the
\* new-project dialog
ResetProject ==
    /\ ~crashed
    /\ IsArray(files)
    /\ Commit(pending \o
              <<[kind |-> "setFiles", value |-> DEFAULT_FILES],
                [kind |-> "setActiveFileName", value |-> DEFAULT_FILES[1].fileName]>>)
    /\ UNCHANGED <<pc, currentFileName, buffer, text, pos, requests, newFileError,
                   speechVars>>

NextSession ==
    \/ Mount
    \/ \E fileName \in TypedNames : CreateFile(fileName)
    \/ \E i \in DOMAIN files.items : DeleteFile(files.items[i].fileName)
    \/ ResetProject
    \/ \E i \in DOMAIN files.items : SelectFile(files.items[i].fileName)
    \/ \E c \in TypedContents : ContentChange(c)
    \/ Render

SpecSession == InitStored /\ [][NextSession]_vars

(***************************************************************************)
(* A generation request during which the user keeps managing the files of  *)
(* the project.                                                            *)
(***************************************************************************)
NextLive ==
    \/ \E prompt \in Prompts : Submit(prompt, SessionTexts)
    \/ StreamOpen
    \/ \E len \in SessionChunks, eager \in BOOLEAN : Chunk(len, eager)
    \/ StreamEnd
    \/ StreamThrow
    \/ Render
    \/ \E fileName \in TypedNames : CreateFile(fileName)
    \/ \E i \in DOMAIN files.items : DeleteFile(files.items[i].fileName)

SpecLive == Init /\ [][NextLive]_vars

(***************************************************************************)
(* The routing rule of the stream protocol, as the specification states    *)
(* it, for the claims to compare the program with.                         *)
(***************************************************************************)
\* the complete lines of a text, without their newlines
RECURSIVE CompleteLines(_)
CompleteLines(t) ==
    LET i == IndexOf(t, <<LF>>)
    IN  IF i = 0 THEN <<>>
        ELSE <<SubSeq(t, 1, i - 1)>> \o CompleteLines(SubSeq(t, i + 1, Len(t)))

\* what follows the last newline of a text
RECURSIVE AfterLastLF(_)
AfterLastLF(t) ==
    LET i == IndexOf(t, <<LF>>)
    IN  IF i = 0 THEN t ELSE AfterLastLF(SubSeq(t, i + 1, Len(t)))

IsMarkerLine(l) == StartsWith(l, MARKER)

MarkerName(l) == Trim(SubSeq(l, Len(MARKER) + 1, Len(l)))

IsNamedMarker(l) == IsMarkerLine(l) /\ MarkerName(l) # <<>>

IsEmptyMarker(l) == IsMarkerLine(l) /\ MarkerName(l) = <<>>

WithFile(fs, n) ==
    IF n \in FileNames(fs) THEN fs ELSE Append(fs, [fileName |-> n, content |-> <<>>])

WithText(fs, n, s) ==
    [i \in DOMAIN fs |->
        IF fs[i].fileName = n THEN [fs[i] EXCEPT !.content = @ \o s] ELSE fs[i]]

RECURSIVE Route(_, _, _)
Route(ls, fs, target) ==
    IF ls = <<>> THEN fs
    ELSE IF IsNamedMarker(Head(ls))
    THEN Route(Tail(ls), WithFile(fs, MarkerName(Head(ls))), MarkerName(Head(ls)))
    ELSE IF IsMarkerLine(Head(ls)) \/ target = <<>>
    THEN Route(Tail(ls), fs, target)
    ELSE Route(Tail(ls), WithText(fs, target, Head(ls) \o <<LF>>), target)

\* the FileSet the routing rule gives for the complete lines of a text
Routed(t) == Route(CompleteLines(t), <<>>, <<>>)

\* a well-formed marker-delimited text: it starts with a marker line and
\* every marker line names a file
WellFormed(t) ==
    LET ls == CompleteLines(t)
    IN  /\ ls # <<>>
        /\ IsNamedMarker(ls[1])
        /\ \A i \in DOMAIN ls : IsMarkerLine(ls[i]) => IsNamedMarker(ls[i])

\* the request completed and the render applied every update it queued
Completed == pc = "completed" /\ currentFiles # NoValue

\* the FileSet the updates of the loop produced: the argument of the
\* remainder's updater, or of the formatting updater when there is none
LoopFiles == IF prevFiles # NoValue THEN prevFiles ELSE currentFiles

\* the FileSet before the formatting pass when the whole text `t` is fed as
\* one chunk
WholeFeed(t) ==
    LET st == ProcessLines([buffer |-> t, currentFileName |-> NoFile,
                            pending |-> <<>>], FALSE)
        q == IF st.currentFileName # NoFile /\ Len(st.buffer) > 0
             THEN Append(st.pending, [kind |-> "appendRest"])
             ELSE st.pending
    IN  ApplyAll([files |-> Array(<<>>), activeFileName |-> <<>>,
                  isLoading |-> TRUE, error |-> "null", prevFiles |-> NoValue,
                  currentFiles |-> NoValue, threw |-> FALSE],
                 q, st.currentFileName, st.buffer).files

(***************************************************************************)
(* Claims.                                                                 *)
(***************************************************************************)
\* C1: chunk-boundary independence.  For every well-formed text and every
\* way of splitting it into chunks, the FileSet before the formatting pass,
\* once the stream is consumed and the queued updates are applied, is the
\* one obtained by feeding the whole text as a single chunk.
C1_ChunkBoundaryIndependence ==
    (Completed /\ WellFormed(text)) => currentFiles = WholeFeed(text)

\* C2: routing rule.  Once the updates of the loop are applied, every
\* complete non-marker line followed by a newline is in the file of the most
\* recent named marker before it, lines before any marker are in no file, and
\* the files are in the order of their first markers; the stream of the
\* specification's example yields [a.js, b.css] with their lines.
C2_RoutingRule ==
    Completed => LoopFiles = Array(Routed(text))

\* C3: the formatting pass.  The FileSet is always an ordered sequence of
\* file entries, and once the request has ended and the formatting updater
\* is applied it holds the same names in the same order, each content
\* replaced by formatCode(name, content).
C3_FormattingPassKeepsSequence ==
    /\ IsArray(files)
    /\ (currentFiles # NoValue /\ pending = <<>>)
           => files = Array(FormattedFiles(currentFiles.items))

\* the names that two or more marker lines of a text announce
RepeatedNames(t) ==
    LET ls == CompleteLines(t)
    IN  {MarkerName(ls[i]) : i \in {j \in DOMAIN ls :
            /\ IsNamedMarker(ls[j])
            /\ \E k \in 1..(j - 1) :
                  IsNamedMarker(ls[k]) /\ MarkerName(ls[k]) = MarkerName(ls[j])}}

ContentsOf(items, n) ==
    {items[i].content : i \in {j \in DOMAIN items : items[j].fileName = n}}

\* C4: a marker line naming a file that already exists.  Once the updates
\* of the loop are applied the FileSet has exactly one entry of that name,
\* and its content is the lines routed to it before the repeated marker
\* followed by the lines routed to it after (nothing cleared, nothing else
\* added).
C4_RepeatedMarkerKeepsContent ==
    Completed =>
        \A n \in RepeatedNames(text) :
            /\ Cardinality({i \in DOMAIN LoopFiles.items :
                               LoopFiles.items[i].fileName = n}) = 1
            /\ ContentsOf(LoopFiles.items, n) = ContentsOf(Routed(text), n)

HasEmptyMarker(t) ==
    \E i \in DOMAIN CompleteLines(t) : IsEmptyMarker(CompleteLines(t)[i])

\* C5: a marker line with an empty name creates no file, changes no target
\* and is appended to no file: once the updates of the loop are applied, the
\* FileSet of a stream with such lines is the one the routing rule gives for
\* the stream without them, the lines after them going to the previous
\* target.
C5_EmptyMarkerIgnored ==
    (Completed /\ HasEmptyMarker(text)) =>
        LoopFiles = Array(Route(SelectSeq(CompleteLines(text),
                                          LAMBDA l : ~IsEmptyMarker(l)),
                                <<>>, <<>>))

\* C6: completion.  With a target set and a non-empty remainder after the
\* last newline, the completion appends exactly that remainder, without a
\* newline, to the target's content and changes nothing else; with no target
\* or an empty remainder the completion changes no content.
C6_RemainderAppendedVerbatim ==
    Completed =>
        /\ buffer = AfterLastLF(text)
        /\ IF currentFileName # NoFile /\ buffer # <<>>
           THEN /\ prevFiles # NoValue
                /\ currentFileName \in FileNames(prevFiles.items)
                /\ currentFiles =
                       Array(WithText(prevFiles.items, currentFileName, buffer))
           ELSE currentFiles = LoopFiles

\* C6 witness: a remainder was appended to a target that already had content
C6_Witness ==
    /\ Completed
    /\ buffer = <<"z">>
    /\ \E i \in DOMAIN currentFiles.items :
          currentFiles.items[i].content = <<"x", LF, "z">>

\* C7: a transport error.  Once the request has failed and its updates are
\* rendered, the FileSet still is the sequence of files built before the
\* error (as built, or formatted), and the error message is set.
C7_PartialResultRetained ==
    (pc = "failed" /\ pos > 0 /\ pending = <<>> /\ currentFiles.items # <<>>) =>
        /\ IsArray(files)
        /\ files.items \in {currentFiles.items, FormattedFiles(currentFiles.items)}
        /\ error = ERROR_MESSAGE

(***************************************************************************)
(* Claims about the preview composition.                                   *)
(***************************************************************************)
HasHtmlFile == IsArray(files) /\ SelectSeq(files.items, IsHtml) # <<>>

\* the base document: the content of the first .html file
BaseHtml == SelectSeq(files.items, IsHtml)[1].content

\* the collected CSS and JS texts
CssText == Join(Contents(SelectSeq(files.items, IsCss)), <<LF>>)
JsText == Join(Contents(SelectSeq(files.items, IsJs)), <<";", LF>>)

\* the document after the CSS step
CssDocument == InlineCss(BaseHtml, files.items)

\* `doc` with `inserted` put right before the first occurrence of `tag`, and
\* `doc` itself when `tag` does not occur
InsertedBefore(doc, tag, inserted) ==
    IF IndexOf(doc, tag) = 0 THEN doc
    ELSE SubSeq(doc, 1, IndexOf(doc, tag) - 1) \o inserted
             \o SubSeq(doc, IndexOf(doc, tag), Len(doc))

\* C8: the CSS step puts the collected CSS text, unchanged, in a <style>
\* element right before the first </head> of the base document, and leaves a
\* base document without </head> unchanged.
C8_CssInlinedVerbatim ==
    (HasHtmlFile /\ CssText # <<>>) =>
        CssDocument = InsertedBefore(BaseHtml, HEAD_CLOSE,
                                     STYLE_OPEN \o CssText \o STYLE_CLOSE)

\* C9: the JS step puts the collected JS text, unchanged, in a <script>
\* element right before the first </body> of the document of the CSS step,
\* and leaves a document without </body> unchanged.
C9_JsInlinedVerbatim ==
    (HasHtmlFile /\ ~crashed /\ JsText # <<>>) =>
        htmlContent = InsertedBefore(CssDocument, BODY_CLOSE,
                                     SCRIPT_OPEN \o JsText \o SCRIPT_CLOSE)

\* C10 as stated: with every .css file empty the CSS step injects no <style>
\* element, and with every .js file empty the JS step injects no <script>
\* element.
C10_NoElementForEmptyText ==
    (HasHtmlFile /\ ~crashed) =>
        /\ (\A i \in DOMAIN files.items :
               IsCss(files.items[i]) => files.items[i].content = <<>>)
              => CssDocument = BaseHtml
        /\ (\A i \in DOMAIN files.items :
               IsJs(files.items[i]) => files.items[i].content = <<>>)
              => htmlContent = CssDocument

\* C10 amended: the CSS step injects a <style> element, right before the
\* first </head>, exactly when the FileSet has a .css file and the base
\* document has a </head> (an empty element when the collected text is
\* empty), and otherwise leaves the document unchanged; likewise the JS step
\* with <script>, the .js files and </body>.
C10_ElementIffFileOfThatKind ==
    (HasHtmlFile /\ ~crashed) =>
        LET head == IndexOf(BaseHtml, HEAD_CLOSE)
            body == IndexOf(CssDocument, BODY_CLOSE)
            css == SelectSeq(files.items, IsCss) # <<>> /\ head # 0
            js == SelectSeq(files.items, IsJs) # <<>> /\ body # 0
        IN  /\ IF css
               THEN /\ SubSeq(CssDocument, 1, head + Len(STYLE_OPEN) - 1)
                          = SubSeq(BaseHtml, 1, head - 1) \o STYLE_OPEN
                    /\ CssText = <<>> =>
                          CssDocument = InsertedBefore(BaseHtml, HEAD_CLOSE,
                                                       STYLE_OPEN \o STYLE_CLOSE)
               ELSE CssDocument = BaseHtml
            /\ IF js
               THEN /\ SubSeq(htmlContent, 1, body + Len(SCRIPT_OPEN) - 1)
                          = SubSeq(CssDocument, 1, body - 1) \o SCRIPT_OPEN
                    /\ JsText = <<>> =>
                          htmlContent = InsertedBefore(CssDocument, BODY_CLOSE,
                                                       SCRIPT_OPEN \o SCRIPT_CLOSE)
               ELSE htmlContent = CssDocument

\* C10 witness: a project whose only .css and .js files are empty is shown
\* with an empty <style> and an empty <script> element
C10_Witness ==
    /\ HasHtmlFile /\ ~crashed /\ pending = <<>>
    /\ SelectSeq(files.items, IsCss) # <<>> /\ CssText = <<>>
    /\ SelectSeq(files.items, IsJs) # <<>> /\ JsText = <<>>
    /\ IndexOf(htmlContent, STYLE_OPEN \o STYLE_CLOSE \o HEAD_CLOSE) # 0
    /\ IndexOf(htmlContent, SCRIPT_OPEN \o SCRIPT_CLOSE \o BODY_CLOSE) # 0

(***************************************************************************)
(* Speech recognition (hooks/useSpeechRecognition.ts): the hook, the       *)
(* SpeechRecognition service it drives, and the events of the service.     *)
(* The service is "starting" between start() and its start event and       *)
(* "active" after it; start() on a service that is not inactive throws     *)
(* InvalidStateError, stop() on an inactive service does nothing.  The     *)
(* setIsListening calls are made outside React events and are rendered     *)
(* later.                                                                  *)
(***************************************************************************)
MaxTimers == 2       \* restart timers pending at the same time

\* the errors the service reports
RECOVERABLE_ERRORS == {"no-speech", "audio-capture", "network"}
SpeechErrors == RECOVERABLE_ERRORS \cup {"not-allowed", "aborted"}

\* recognition.start(): [threw, recognition]
Start(service) ==
    IF service = "inactive"
    THEN [threw |-> FALSE, recognition |-> "starting"]
    ELSE [threw |-> TRUE, recognition |-> service]

\* lines 108-114: the user clicks the microphone button while the rendered
\* isListening is false (InputBar: onClick is startListening then).  An
\* exception of start() leaves the handler after the flag was reset.
StartListening ==
    /\ ~cleanedUp
    /\ ~isListening
    /\ restartTimers < MaxTimers
    /\ userStoppedRef' = FALSE
    /\ explicitStop' = FALSE
    /\ recognition' = Start(recognition).recognition
    /\ UNCHANGED <<isListening, listeningUpdate, restartTimers, cleanedUp, appVars>>

\* lines 116-121: the user clicks the button while the rendered isListening
\* is true
StopListening ==
    /\ ~cleanedUp
    /\ isListening
    /\ userStoppedRef' = TRUE
    /\ explicitStop' = TRUE
    /\ UNCHANGED <<recognition, isListening, listeningUpdate, restartTimers,
                   cleanedUp, appVars>>

\* lines 52-54: the service has started and fires its start event
OnStart ==
    /\ recognition = "starting"
    /\ recognition' = "active"
    /\ listeningUpdate' = IF cleanedUp THEN listeningUpdate ELSE "true"
    /\ UNCHANGED <<isListening, userStoppedRef, restartTimers, cleanedUp,
                   explicitStop, appVars>>

\* lines 74-83: the service reports the error `e`
OnError(e) ==
    /\ recognition # "inactive"
    /\ ~cleanedUp
    /\ IF e \in RECOVERABLE_ERRORS
       THEN UNCHANGED <<userStoppedRef, explicitStop>>
       ELSE userStoppedRef' = TRUE /\ explicitStop' = TRUE
    /\ UNCHANGED <<recognition, isListening, listeningUpdate, restartTimers,
                   cleanedUp, appVars>>

\* lines 56-72: the service ends (by itself, after an error, or after
\* stop()) and fires its end event; the handler is detached after cleanup
OnEnd ==
    /\ recognition # "inactive"
    /\ recognition' = "inactive"
    /\ IF cleanedUp
       THEN UNCHANGED <<listeningUpdate, restartTimers>>
       ELSE /\ listeningUpdate' = "false"
            /\ restartTimers' = IF userStoppedRef THEN restartTimers
                                 ELSE restartTimers + 1
    /\ UNCHANGED <<isListening, userStoppedRef, cleanedUp, explicitStop, appVars>>

\* lines 62-70: a timer set by onend fires
RestartTimer ==
    /\ restartTimers > 0
    /\ restartTimers' = restartTimers - 1
    /\ recognition' = Start(recognition).recognition
    /\ userStoppedRef' = IF Start(recognition).threw THEN TRUE ELSE userStoppedRef
    /\ UNCHANGED <<isListening, listeningUpdate, cleanedUp, explicitStop, appVars>>

\* React renders the hook's component with the queued setIsListening
RenderListening ==
    /\ ~cleanedUp
    /\ listeningUpdate # "none"
    /\ isListening' = (listeningUpdate = "true")
    /\ listeningUpdate' = "none"
    /\ UNCHANGED <<recognition, userStoppedRef, restartTimers, cleanedUp,
                   explicitStop, appVars>>

\* lines 95-105: the component is unmounted and the effect is cleaned up
Cleanup ==
    /\ ~cleanedUp
    /\ cleanedUp' = TRUE
    /\ userStoppedRef' = TRUE
    /\ UNCHANGED <<recognition, isListening, listeningUpdate, restartTimers,
                   explicitStop, appVars>>

NextSpeech ==
    \/ StartListening
    \/ StopListening
    \/ OnStart
    \/ \E e \in SpeechErrors : OnError(e)
    \/ OnEnd
    \/ RestartTimer
    \/ RenderListening
    \/ Cleanup

SpecSpeech == Init /\ [][NextSpeech]_vars

(***************************************************************************)
(* Claims about the base document of the preview.                          *)
(***************************************************************************)
\* the positions of the .html files in the FileSet
HtmlPositions == {i \in DOMAIN files.items : IsHtml(files.items[i])}

\* the first of them
FirstHtmlPosition == CHOOSE i \in HtmlPositions : \A j \in HtmlPositions : i <= j

\* C11: the base document of the preview is the content of the first file,
\* in FileSet order, whose name ends in .html, whatever .html files follow
\* it; with no such file the preview is the fixed fallback document, with
\* nothing injected; the preview is a function of the FileSet alone.
C11_FirstHtmlFileIsBase ==
    (IsArray(files) /\ ~crashed) =>
        IF HtmlPositions = {}
        THEN htmlContent = FALLBACK_HTML
        ELSE htmlContent =
                 InlineJs(InlineCss(files.items[FirstHtmlPosition].content,
                                    files.items), files.items)

\* C11 witness: a project with two .html files is shown with the first one
\* as its base document
C11_Witness ==
    /\ IsArray(files) /\ ~crashed
    /\ Cardinality(HtmlPositions) >= 2
    /\ files.items[FirstHtmlPosition].content = <<"h">> \o HEAD_CLOSE
    /\ htmlContent = <<"h">> \o HEAD_CLOSE

(***************************************************************************)
(* Claims about the start of a generation request.                         *)
(***************************************************************************)
\* C12: once a request is accepted the FileSet has been set to empty: it is
\* empty until the first chunk is processed, it is empty when the request
\* fails before any chunk, and at no later point of the request does it hold
\* a file of the previous project.
C12_FileSetClearedAtStart ==
    (pc # "idle") =>
        /\ (pc = "opening" \/ pos = 0) => files.items = <<>>
        /\ FileNames(files.items) \cap FileNames(DEFAULT_FILES) = {}

\* C12 witness: the request failed before it delivered a chunk and the
\* FileSet is empty
C12_Witness ==
    /\ pc = "failed" /\ pos = 0
    /\ isLoading
    /\ files = Array(<<>>)

(***************************************************************************)
(* Claims about the files of the project.                                  *)
(***************************************************************************)
\* C13: the file names of the FileSet are unique, compared case-sensitively,
\* in every reachable state: whatever the interleaving of the marker lines
\* of a stream with the user's file creations and deletions.
C13_NamesUnique ==
    \A i, j \in DOMAIN files.items :
        files.items[i].fileName = files.items[j].fileName => i = j

\* what createFile has to do with the typed name `fileName`
CreateFileContract(fileName) ==
    LET name == Trim(fileName)
    IN  IF name = <<>>
        THEN newFileError' = "empty" /\ UNCHANGED <<files, activeFileName>>
        ELSE IF \E n \in FileNames(files.items) : ToLowerCase(n) = ToLowerCase(name)
        THEN newFileError' = "duplicate" /\ UNCHANGED <<files, activeFileName>>
        ELSE /\ newFileError' = "null"
             /\ files' = Array(Append(files.items,
                                      [fileName |-> name, content |-> <<>>]))
             /\ activeFileName' = name

Settled == files # NoValue /\ pending = <<>>

\* C15: active-file reconciliation.  Once a change of the FileSet has
\* settled, the FileSet is a sequence of entries and the active name is the
\* name of one of them, or is empty exactly when the FileSet is empty.
C15_ActiveFileReconciled ==
    Settled =>
        /\ IsArray(files)
        /\ IF files.items = <<>>
           THEN activeFileName = <<>>
           ELSE activeFileName \in FileNames(files.items)

\* C16: persistence.  Once a change of the FileSet has settled, the item
\* 'code-project' is the serialization of the current FileSet, entry by
\* entry in order, and reading it back as App does at startup gives that
\* FileSet again.
C16_StorageHoldsFileSet ==
    Settled =>
        /\ IsArray(files)
        /\ storage = JsonArray(files.items)
        /\ InitialFiles(storage).files = files

(***************************************************************************)
(* Claims about the startup.                                               *)
(***************************************************************************)
\* a stored item that is not the serialization of a list of file entries
Malformed(item) == item \in {UNPARSABLE, JSON_OBJECT}

\* C17: startup.  The FileSet App starts with is a sequence of file entries,
\* and when the stored item is malformed (unparsable, or parsable but not a
\* list of file entries) it is the default project and the malformed item is
\* no longer in the storage.
C17_MalformedItemDiscarded ==
    [][Mount =>
          /\ IsArray(files')
          /\ Malformed(storage) =>
                 (files' = Array(DEFAULT_FILES) /\ storage' # storage)]_vars

(***************************************************************************)
(* Claims about concurrent requests.                                       *)
(***************************************************************************)
\* C20: at most one generation request is in flight at any time, and a
\* submit made while the loading flag is set, or with a prompt that is empty
\* after trimming, starts no request and changes neither the FileSet, the
\* error message nor the loading flag.
C20_OneRequestInFlight ==
    /\ [](requests <= 1)
    /\ [][\A prompt \in Prompts :
            (Submit(prompt, Texts) /\ (isLoading \/ Trim(prompt) = <<>>))
                => UNCHANGED <<files, error, isLoading, requests, pc, text>>]_vars

\* C20 witness: a request is in the middle of its stream with the loading
\* flag rendered, the state in which a further submit is refused
C20_Witness ==
    /\ requests = 1
    /\ isLoading
    /\ pc = "streaming" /\ pos > 0

(***************************************************************************)
(* Claims about speech recognition.                                        *)
(***************************************************************************)
\* C18: restart policy.  When the service ends while the hook is mounted, a
\* restart is scheduled if the user has not stopped it and no fatal error
\* occurred since the last startListening, and no restart is scheduled if
\* the user stopped it or a fatal error occurred.
C18_RestartPolicy ==
    [][(OnEnd /\ ~cleanedUp) =>
          restartTimers' = IF explicitStop THEN restartTimers
                           ELSE restartTimers + 1]_vars

\* C19: a restart scheduled by onend calls start() only on a service that
\* is not running and only while the hook is mounted, so the attempt never
\* throws and never sets the user-stopped flag.
C19_RestartNeverThrows ==
    [][RestartTimer =>
          /\ recognition = "inactive"
          /\ ~cleanedUp
          /\ UNCHANGED userStoppedRef]_vars

(***************************************************************************)
(* Termination of a generation request.  The service delivers the stream   *)
(* to its end unless it throws, handleSubmit runs on when its await        *)
(* resolves, and React renders every update it has queued.                 *)
(***************************************************************************)
Fairness ==
    /\ WF_vars(StreamOpen)
    /\ WF_vars(\E len \in 1..(Len(text) - pos), eager \in BOOLEAN : Chunk(len, eager))
    /\ WF_vars(StreamEnd)
    /\ WF_vars(Render)

FairSpec == Spec /\ Fairness

\* the request is inside the try block of handleSubmit
InFlight == pc \in {"opening", "streaming"}

\* the request is over and rendered: the loading flag is false, the error
\* message is set exactly when the request threw, and line 171 accepts a
\* new prompt
RequestOver ==
    /\ pc \in {"completed", "failed"}
    /\ ~crashed
    /\ ~isLoading
    /\ (error # "null") <=> (pc = "failed")
    /\ \E prompt \in Prompts : Accepted(prompt)

\* C21: every accepted generation request eventually ends with the loading
\* flag false, whether the stream completes or throws; the error message is
\* non-null at that point exactly when the request threw, and a new request
\* can then be submitted.
C21_RequestEndsNotLoading == InFlight ~> RequestOver

====
